---- MODULE Spec2Model ----
(***************************************************************************)
(* Model of the HR demo back end (backend_logic.py) and of the two sidebar *)
(* buttons of app.py that call it directly.  The persisted state is the    *)
(* set of flat files in the working directory; employees.csv and           *)
(* emergency_contacts.csv are modelled with their contents, the others by  *)
(* their existence.  Every operation is one atomic action (sequential use).*)
(* Columns that no modelled branch inspects (Department, Join_Date,        *)
(* Contact_Name, Phone) are left out of the rows.                          *)
(***************************************************************************)
EXTENDS Integers, Sequences, FiniteSets, TLC

\* ------------------------------------------------------------------ bounds
\* range(1, 101): 100 employees in the code, scaled down here.
NumEmployees == 2
\* Employees at the end of the id range that get no generated contact
\* (ids 180..200 in the code: range(101, 180) against range(1, 101)).
NoContactTail == 1

\* --------------------------------------------------------- program constants
IdBase == 100
MinSalary == 50000
MaxSalary == 180000
SuffixMin == 100
SuffixMax == 999
AuditShowLimit == 10
SliderDefault == 15
MaxHikePercent == 100
\* the advisory threshold 0.85, as the fraction 17/20
RiskThresholdNum == 17
RiskThresholdDen == 20
BandMinPct == 90
BandMaxPct == 110

\* ------------------------------------------------------------------- values
\* pandas' missing value (read_csv gives it for an empty cell) and Python None.
NaN == "<NaN>"
None == "<None>"
FakerName == "First Last"
GeneratedEmail == "first.last@company.com"
Roles == {"Python Dev", "CTO"}
Salaries == {MinSalary, MaxSalary}
Relations == {"Spouse", "Parent", "Sibling"}
Suffixes == {SuffixMin, SuffixMax}

EmployeeIds == (IdBase + 1)..(IdBase + NumEmployees)
\* mutant: the contact loop runs past the last employee id
ContactIdRangePastEnd == (IdBase + 1)..(IdBase + NumEmployees + NoContactTail)

\* range(101, 180): the ids that get a generated contact.
ContactIdRange == (IdBase + 1)..(IdBase + NumEmployees - NoContactTail)

CoreFiles == {"employees.csv", "emergency_contacts.csv", "candidates.csv", "onboarding.csv"}
LoadedFiles == CoreFiles \cup {"attrition.csv", "engagement.csv"}
\* mutant: the list of files to remove lacks emergency_contacts.csv
ResetFilesKeepContacts == {"employees.csv", "attrition.csv", "engagement.csv"}

ResetFiles == {"employees.csv", "attrition.csv", "engagement.csv", "emergency_contacts.csv"}

ResetMsg == "RESET COMPLETE: All data deleted. It will auto-regenerate on next action."
AuditCleanMsg == "Data Audit Complete: All records are clean."
SimCleanMsg == "System Checked: No missing data found."
SimHeader == "SYSTEM UPDATE SUCCESSFUL"
NotFoundMsg == "Error: Employee not found."
HighRiskText == "High Risk: Pushes employee to top of band."
SafeText == "Safe: Maintains healthy band position."

\* ------------------------------------------------------------------- state
VARIABLES
    files,                  \* names of the files that exist
    employees_csv,          \* rows of employees.csv (<<>> while it is absent)
    emergency_contacts_csv, \* rows of emergency_contacts.csv (<<>> while absent)
    result,                 \* the last operation, whether it raised, what it returned
    prevSimulated,          \* history: the operation before the last was a remediation run that returned
    sim                     \* a remediation run in progress: where it stands and its local frames

vars == <<files, employees_csv, emergency_contacts_csv, result, prevSimulated, sim>>

\* no remediation run is in progress
SimIdle == [pc |-> "idle", df_emp |-> <<>>, df_cont |-> <<>>, updated_email_records |-> <<>>]

\* the history variable's next value: what the last operation was
History == prevSimulated' = (result.op = "simulate" /\ result.status = "ok")

\* a whole operation ends: the history moves on, a run in progress elsewhere is not touched
StepHistory == History /\ sim' = sim

\* ------------------------------------------------------------ sequence helpers
Range(s) == {s[i] : i \in DOMAIN s}

Ids(table) == {table[i].Employee_ID : i \in DOMAIN table}

RECURSIVE SelectRows(_, _)
\* the rows of table at the indices of idx, in row order (boolean-mask selection)
SelectRows(table, idx) ==
    IF table = <<>> THEN <<>>
    ELSE LET n == Len(table)
             front == SelectRows(SubSeq(table, 1, n - 1), idx)
         IN IF n \in idx THEN Append(front, table[n]) ELSE front

\* every ordering of a finite set: list(set) fixes no order
Orderings(S) ==
    {f \in [1..Cardinality(S) -> S] : \A i, j \in 1..Cardinality(S) : f[i] = f[j] => i = j}

\* ------------------------------------------------------------- csv conversion
IsNull(e) == e \in {NaN, None}

\* DataFrame.to_csv: a missing value is written as an empty cell
EmailToCsv(e) == IF IsNull(e) THEN "" ELSE e

\* pd.read_csv: an empty cell is read back as NaN
EmailFromCsv(c) == IF c = "" THEN NaN ELSE c

to_csv(df) == [i \in DOMAIN df |-> [df[i] EXCEPT !.Email = EmailToCsv(@)]]

read_csv(rows) == [i \in DOMAIN rows |-> [rows[i] EXCEPT !.Email = EmailFromCsv(@)]]

\* df_emp['Email'].replace({np.nan: None, "": None})
CleanNaNs(df) ==
    [i \in DOMAIN df |-> [df[i] EXCEPT !.Email = IF @ \in {NaN, ""} THEN None ELSE @]]

\* ------------------------------------------------------------ data generation
\* every outcome of the employee loop: random role, salary, and email dropped or not
GeneratedEmployees ==
    {[i \in 1..NumEmployees |->
        [Employee_ID |-> IdBase + i, Name |-> FakerName, Role |-> r[i],
         Email |-> e[i], Salary |-> s[i]]] :
        r \in [1..NumEmployees -> Roles],
        e \in [1..NumEmployees -> {GeneratedEmail, None}],
        s \in [1..NumEmployees -> Salaries]}

\* every outcome of the contact loop
GeneratedContacts ==
    {[i \in 1..Cardinality(ContactIdRange) |->
        [Employee_ID |-> IdBase + i, Relation |-> rel[i]]] :
        rel \in [1..Cardinality(ContactIdRange) -> Relations]}

Generations ==
    {[employees |-> e, contacts |-> c] : e \in GeneratedEmployees, c \in GeneratedContacts}

NoGeneration == [employees |-> <<>>, contacts |-> <<>>]

\* the random draws a call of load_data consumes in the file system fs
GenChoices(fs) == IF "employees.csv" \in fs.files THEN {NoGeneration} ELSE Generations

\* ---------------------------------------------------------------- file system
FS == [files |-> files, employees |-> employees_csv, contacts |-> emergency_contacts_csv]

SetFS(fs) ==
    /\ files' = fs.files
    /\ employees_csv' = fs.employees
    /\ emergency_contacts_csv' = fs.contacts

\* mutant: the core tables are generated without asking whether employees.csv exists
load_data_always_generates(fs, gen) ==
    LET f5 == fs.files \cup {"hr_policy.txt", "benefits_log.csv"} \cup LoadedFiles
        emp2 == to_csv(gen.employees)
    IN [fs |-> [files |-> f5, employees |-> emp2, contacts |-> gen.contacts],
        ok |-> TRUE,
        df_emp |-> CleanNaNs(read_csv(emp2)),
        df_cont |-> gen.contacts]

\* load_data: writes the policy text, generates what is absent, reads the six
\* tables; any exception (a file to read is absent) gives the None tables.
load_data(fs, gen) ==
    LET f1 == fs.files \cup {"hr_policy.txt"}
        genCore == "employees.csv" \notin f1
        f2 == IF genCore THEN f1 \cup CoreFiles ELSE f1
        emp2 == IF genCore THEN to_csv(gen.employees) ELSE fs.employees
        cont2 == IF genCore THEN gen.contacts ELSE fs.contacts
        f3 == f2 \cup {"attrition.csv"}
        \* engagement generation reads employees.csv, which exists by now
        f4 == f3 \cup {"engagement.csv"}
        f5 == f4 \cup {"benefits_log.csv"}
        ok == LoadedFiles \subseteq f5
    IN [fs |-> [files |-> f5, employees |-> emp2, contacts |-> cont2],
        ok |-> ok,
        df_emp |-> IF ok THEN CleanNaNs(read_csv(emp2)) ELSE None,
        df_cont |-> IF ok THEN cont2 ELSE None]

\* mutant: the list of files to remove lacks employees.csv
reset_demo_data_keeps_employees(fs) ==
    [files |-> fs.files \ (ResetFiles \ {"employees.csv"}),
     employees |-> fs.employees,
     contacts |-> <<>>]

\* reset_demo_data: removes the four files that exist
reset_demo_data(fs) ==
    [files |-> fs.files \ ResetFiles,
     employees |-> <<>>,
     contacts |-> <<>>]

\* how an operation ended: an uncaught exception, or its return value
Raised(op, args, exc) == [op |-> op, args |-> args, status |-> "raised", out |-> [text |-> exc]]

Returned(op, args, out) == [op |-> op, args |-> args, status |-> "ok", out |-> out]

\* ------------------------------------------------------------------- audit
\* df_emp[df_emp['Email'].isnull() | (df_emp['Email'] == "")]
MissingEmailRows(df) == SelectRows(df, {i \in DOMAIN df : IsNull(df[i].Email) \/ df[i].Email = ""})

\* mutant: the set difference taken the other way round
MissingIdsReversed(df_emp, df_cont) == Ids(df_cont) \ Ids(df_emp)

\* set(df_emp['Employee_ID']) - set(df_cont['Employee_ID'])
MissingIds(df_emp, df_cont) == Ids(df_emp) \ Ids(df_cont)

\* missing_ids[:10] of a list in arbitrary order
FirstShown(S) ==
    {T \in SUBSET S : Cardinality(T) = IF Cardinality(S) < AuditShowLimit
                                       THEN Cardinality(S) ELSE AuditShowLimit}

audit_data_integrity(ld, shown) ==
    IF ~ld.ok THEN Raised("audit", <<>>, "TypeError")
    ELSE LET missing_email == MissingEmailRows(ld.df_emp)
             missing_ids == MissingIds(ld.df_emp, ld.df_cont)
             emailIssue == IF missing_email # <<>>
                           THEN <<[kind |-> "email", count |-> Len(missing_email),
                                   ids |-> Ids(missing_email)]>>
                           ELSE <<>>
             contactIssue == IF missing_ids # {}
                             THEN <<[kind |-> "contact", count |-> Cardinality(missing_ids),
                                     ids |-> shown]>>
                             ELSE <<>>
             issues == emailIssue \o contactIssue
         IN IF issues = <<>> THEN Returned("audit", <<>>, [text |-> AuditCleanMsg, issues |-> <<>>])
            ELSE Returned("audit", <<>>, [text |-> "issues", issues |-> issues])

\* ------------------------------------------------------------ verification
verify_data_remediation(ld) ==
    IF ~ld.ok THEN Raised("verify", <<>>, "TypeError")
    ELSE LET m_email == Len(MissingEmailRows(ld.df_emp))
         IN IF m_email = 0
            THEN Returned("verify", <<>>, [text |-> "SUCCESS", m_email |-> 0])
            ELSE Returned("verify", <<>>, [text |-> "Waiting", m_email |-> m_email])

\* ------------------------------------------------------------- remediation
\* f"{first name, lower case}.{random.randint(100,999)}@company.com"
new_email(row, n) == "first." \o ToString(n) \o "@company.com"

\* pd.isna(row['Email']) or row['Email'] == ""
NeedsEmail(row) == IsNull(row.Email) \/ row.Email = ""

\* mutant: the new email is set on the row copy and never reaches the frame
FixEmailsOnCopy(df, sfx) == df

\* step 1: the rows that need an email get one; sfx gives each its random suffix
FixEmails(df, sfx) ==
    [i \in DOMAIN df |->
        IF NeedsEmail(df[i]) THEN [df[i] EXCEPT !.Email = new_email(df[i], sfx[i])] ELSE df[i]]

UpdatedEmailRecords(df, fixed) ==
    LET hit == SelectRows(fixed, {i \in DOMAIN df : NeedsEmail(df[i])})
    IN [k \in DOMAIN hit |-> [Name |-> hit[k].Name, New_Email |-> hit[k].Email]]

\* step 2: one contact per missing id, in the order of the list
NewContacts(missing_ids) ==
    [k \in DOMAIN missing_ids |-> [Employee_ID |-> missing_ids[k], Relation |-> "Spouse"]]

\* mutant: only the new rows are written back
ConcatContactsOnlyNew(df_cont, new_contacts) == new_contacts

\* pd.concat([df_cont, pd.DataFrame(new_contacts)], ignore_index=True)
ConcatContacts(df_cont, new_contacts) == df_cont \o new_contacts

\* step 3: the header, then the email table when emails were updated
SimReport(updated_email_records, new_contacts) ==
    IF updated_email_records = <<>> /\ new_contacts = <<>>
    THEN [text |-> SimCleanMsg, sections |-> <<>>]
    ELSE [text |-> SimHeader,
          sections |-> IF updated_email_records # <<>>
                       THEN <<[kind |-> "emails", rows |-> updated_email_records]>>
                       ELSE <<>>]

\* the random draws of one run: a suffix for each row without an email
SuffixChoices(fs) ==
    LET df == read_csv(fs.employees)
        need == {i \in DOMAIN df : NeedsEmail(df[i])}
    IN {[i \in DOMAIN df |-> IF i \in need THEN s[i] ELSE SuffixMin] : s \in [need -> Suffixes]}

\* the orders in which list(set - set) can enumerate the ids without a contact
OrderChoices(fs) == Orderings(MissingIds(fs.employees, fs.contacts))

\* simulate_employee_updates_logic: reads the two files directly (no load_data)
simulate_employee_updates_logic(fs, sfx, missing_ids) ==
    IF "employees.csv" \notin fs.files \/ "emergency_contacts.csv" \notin fs.files
    THEN [fs |-> fs, result |-> Raised("simulate", <<>>, "FileNotFoundError")]
    ELSE LET df_emp == read_csv(fs.employees)
             df_cont == fs.contacts
             fixed == FixEmails(df_emp, sfx)
             updated_email_records == UpdatedEmailRecords(df_emp, fixed)
             new_contacts == NewContacts(missing_ids)
             contacts2 == IF new_contacts # <<>>
                          THEN ConcatContacts(df_cont, new_contacts)
                          ELSE df_cont
         IN [fs |-> [files |-> fs.files, employees |-> to_csv(fixed), contacts |-> contacts2],
             result |-> Returned("simulate", <<>>,
                                 SimReport(updated_email_records, new_contacts))]

\* ------------------------------------------------------------- compensation
RECURSIVE SumSalary(_)
SumSalary(rows) == IF rows = <<>> THEN 0 ELSE rows[1].Salary + SumSalary(Tail(rows))

MinSalaryOf(rows) == CHOOSE m \in {rows[i].Salary : i \in DOMAIN rows} :
                        \A i \in DOMAIN rows : m <= rows[i].Salary

MaxSalaryOf(rows) == CHOOSE m \in {rows[i].Salary : i \in DOMAIN rows} :
                        \A i \in DOMAIN rows : m >= rows[i].Salary

\* df_emp[df_emp['Employee_ID'] == emp_id]
RecordOf(df, emp_id) == SelectRows(df, {i \in DOMAIN df : df[i].Employee_ID = emp_id})

\* df_emp[df_emp['Role'] == role]
Peers(df, role) == SelectRows(df, {i \in DOMAIN df : df[i].Role = role})

\* mutant: the lower band edge without its 0.9 factor
BandMinUnscaled(min_s) == min_s * 100

\* band_min, band_max = min_s * 0.9, max_s * 1.1 (amounts are kept in hundredths)
BandMin(min_s) == min_s * BandMinPct

BandMax(max_s) == max_s * BandMaxPct

\* pos as the exact fraction num/den; 1.0 when the band has no width
Position(new_sal, band_min, band_max) ==
    IF band_max # band_min
    THEN [num |-> new_sal - band_min, den |-> band_max - band_min]
    ELSE [num |-> 1, den |-> 1]

\* pos > 0.85 in exact arithmetic
AboveThreshold(pos) ==
    IF pos.den > 0 THEN pos.num * RiskThresholdDen > RiskThresholdNum * pos.den
    ELSE pos.num * RiskThresholdDen < RiskThresholdNum * pos.den

\* the float quotient of a position that is exactly 0.85 rounds to either side
OnThreshold(pos) == pos.num * RiskThresholdDen = RiskThresholdNum * pos.den

RecTexts(pos) ==
    IF OnThreshold(pos) THEN {HighRiskText, SafeText}
    ELSE IF AboveThreshold(pos) THEN {HighRiskText} ELSE {SafeText}

\* calculate_hike_impact(emp_id, hike_percent); rec_text is the advisory chosen
calculate_hike_impact(ld, emp_id, hike_percent, rec_text) ==
    IF ~ld.ok THEN Raised("hike", <<emp_id, hike_percent>>, "TypeError")
    ELSE LET record == RecordOf(ld.df_emp, emp_id)
         IN IF record = <<>>
            THEN Returned("hike", <<emp_id, hike_percent>>, [text |-> NotFoundMsg])
            ELSE LET current == record[1].Salary
                     role == record[1].Role
                     hike_amt == current * hike_percent
                     new_sal == current * 100 + hike_amt
                     peers == Peers(ld.df_emp, role)
                     band_min == BandMin(MinSalaryOf(peers))
                     band_max == BandMax(MaxSalaryOf(peers))
                     pos == Position(new_sal, band_min, band_max)
                     above == new_sal * Len(peers) > 100 * SumSalary(peers)
                 IN Returned("hike", <<emp_id, hike_percent>>,
                             [text |-> "report", role |-> role, current |-> current,
                              hike_amt |-> hike_amt, new_sal |-> new_sal,
                              band_min |-> band_min, band_max |-> band_max, pos |-> pos,
                              comp_text |-> IF above THEN "ABOVE" ELSE "BELOW",
                              rec_text |-> rec_text])

\* the position the call computes for these inputs (0 when it computes none)
HikePosition(ld, emp_id, hike_percent) ==
    IF ld.ok /\ RecordOf(ld.df_emp, emp_id) # <<>>
    THEN calculate_hike_impact(ld, emp_id, hike_percent, SafeText).out.pos
    ELSE [num |-> 0, den |-> 1]

\* ids a caller can ask for: every employee and one id that has no row
QueryIds == EmployeeIds \cup {IdBase + NumEmployees + 1}

\* st.slider("Hike %", 0, 40, 15): the value the sidebar sends unless it is moved
HikeInputs == {SliderDefault}

\* ------------------------------------------------------------------ actions
Init ==
    /\ files = {}
    /\ employees_csv = <<>>
    /\ emergency_contacts_csv = <<>>
    /\ result = Returned("start", <<>>, [text |-> ""])
    /\ prevSimulated = FALSE
    /\ sim = SimIdle

Reset ==
    /\ SetFS(reset_demo_data(FS))
    /\ result' = Returned("reset", <<>>, [text |-> ResetMsg])
    /\ StepHistory

Audit ==
    \E gen \in GenChoices(FS) :
        LET ld == load_data(FS, gen)
        IN \E shown \in (IF ld.ok THEN FirstShown(MissingIds(ld.df_emp, ld.df_cont)) ELSE {{}}) :
            /\ SetFS(ld.fs)
            /\ result' = audit_data_integrity(ld, shown)
            /\ StepHistory

Verify ==
    \E gen \in GenChoices(FS) :
        LET ld == load_data(FS, gen)
        IN /\ SetFS(ld.fs)
           /\ result' = verify_data_remediation(ld)
           /\ StepHistory

Simulate ==
    \E sfx \in SuffixChoices(FS), missing_ids \in OrderChoices(FS) :
        LET r == simulate_employee_updates_logic(FS, sfx, missing_ids)
        IN /\ SetFS(r.fs)
           /\ result' = r.result
           /\ StepHistory

Hike(percents) ==
    \E gen \in GenChoices(FS) :
        LET ld == load_data(FS, gen)
        IN \E emp_id \in QueryIds, hike_percent \in percents :
            \E rec_text \in RecTexts(HikePosition(ld, emp_id, hike_percent)) :
                /\ SetFS(ld.fs)
                /\ result' = calculate_hike_impact(ld, emp_id, hike_percent, rec_text)
                /\ StepHistory

HikeSidebar == Hike(HikeInputs)

HikeAny == Hike(0..MaxHikePercent)

Next ==
    \/ Reset
    \/ Audit
    \/ Verify
    \/ Simulate
    \/ HikeSidebar

Spec == Init /\ [][Next]_vars

\* The compensation calculator alone, on the tables of a first generation:
\* Role and Salary are its inputs, every id and every percentage is tried,
\* once on each table (the calculation leaves the tables as they are).
InitHike ==
    /\ files = LoadedFiles \cup {"hr_policy.txt", "benefits_log.csv"}
    /\ employees_csv \in {to_csv(e) : e \in {g \in GeneratedEmployees :
                                    \A i \in DOMAIN g : g[i].Email = GeneratedEmail}}
    /\ emergency_contacts_csv \in {c \in GeneratedContacts :
                                    \A i \in DOMAIN c : c[i].Relation = "Spouse"}
    /\ result = Returned("start", <<>>, [text |-> ""])
    /\ prevSimulated = FALSE
    /\ sim = SimIdle

NextHike == result.op = "start" /\ HikeAny

SpecHike == InitHike /\ [][NextHike]_vars

\* ------------------------------------------------- overlapping user actions
\* Two sessions on the same working directory: one runs the remediation
\* simulator statement by statement (its two reads, its two writes), the other
\* presses Reset or runs an audit between any two of those statements.

\* the random suffixes of a run over the frame df
SuffixesFor(df) ==
    LET need == {i \in DOMAIN df : NeedsEmail(df[i])}
    IN {[i \in DOMAIN df |-> IF i \in need THEN s[i] ELSE SuffixMin] : s \in [need -> Suffixes]}

\* the run ends with an exception before it wrote anything
SimRaise ==
    /\ result' = Raised("simulate", <<>>, "FileNotFoundError")
    /\ History
    /\ sim' = SimIdle
    /\ UNCHANGED <<files, employees_csv, emergency_contacts_csv>>

\* df_emp = pd.read_csv("employees.csv")
SimReadEmployees ==
    /\ sim.pc = "idle"
    /\ IF "employees.csv" \notin files THEN SimRaise
       ELSE /\ sim' = [sim EXCEPT !.pc = "read_emp", !.df_emp = read_csv(employees_csv)]
            /\ UNCHANGED <<files, employees_csv, emergency_contacts_csv, result, prevSimulated>>

\* df_cont = pd.read_csv("emergency_contacts.csv")
SimReadContacts ==
    /\ sim.pc = "read_emp"
    /\ IF "emergency_contacts.csv" \notin files THEN SimRaise
       ELSE /\ sim' = [sim EXCEPT !.pc = "read_both", !.df_cont = emergency_contacts_csv]
            /\ UNCHANGED <<files, employees_csv, emergency_contacts_csv, result, prevSimulated>>

\* the email loop, then df_emp.to_csv("employees.csv"), which creates the file anew
SimWriteEmployees ==
    /\ sim.pc = "read_both"
    /\ \E sfx \in SuffixesFor(sim.df_emp) :
        LET fixed == FixEmails(sim.df_emp, sfx)
        IN /\ files' = files \cup {"employees.csv"}
           /\ employees_csv' = to_csv(fixed)
           /\ sim' = [sim EXCEPT !.pc = "wrote_emp", !.df_emp = fixed,
                                 !.updated_email_records = UpdatedEmailRecords(sim.df_emp, fixed)]
    /\ UNCHANGED <<emergency_contacts_csv, result, prevSimulated>>

\* the contact loop, df_cont.to_csv("emergency_contacts.csv") when contacts were added,
\* and the report
SimWriteContacts ==
    /\ sim.pc = "wrote_emp"
    /\ \E missing_ids \in Orderings(MissingIds(sim.df_emp, sim.df_cont)) :
        LET new_contacts == NewContacts(missing_ids)
        IN /\ IF new_contacts # <<>>
              THEN /\ files' = files \cup {"emergency_contacts.csv"}
                   /\ emergency_contacts_csv' = ConcatContacts(sim.df_cont, new_contacts)
              ELSE UNCHANGED <<files, emergency_contacts_csv>>
           /\ result' = Returned("simulate", <<>>,
                                 SimReport(sim.updated_email_records, new_contacts))
    /\ History
    /\ sim' = SimIdle
    /\ UNCHANGED employees_csv

NextOverlap ==
    \/ SimReadEmployees
    \/ SimReadContacts
    \/ SimWriteEmployees
    \/ SimWriteContacts
    \/ Reset
    \/ Audit

SpecOverlap == Init /\ [][NextOverlap]_vars

\* ------------------------------------------------------ the gaps on disk
TablesExist == {"employees.csv", "emergency_contacts.csv"} \subseteq files

\* ids of the employees.csv rows whose Email cell is empty
MissingEmailIdsOnDisk ==
    {employees_csv[i].Employee_ID : i \in {j \in DOMAIN employees_csv : employees_csv[j].Email = ""}}

\* ids in employees.csv with no row in emergency_contacts.csv
MissingContactIdsOnDisk == Ids(employees_csv) \ Ids(emergency_contacts_csv)

IssuesOfKind(kind) ==
    {k \in DOMAIN result.out.issues : result.out.issues[k].kind = kind}

\* some email on disk was written by remediation
SomeEmailRemediated ==
    \E i \in DOMAIN employees_csv : employees_csv[i].Email \notin {"", GeneratedEmail}

\* some contact on disk was added by remediation (its id got no generated contact)
SomeContactRemediated ==
    \E i \in DOMAIN emergency_contacts_csv :
        emergency_contacts_csv[i].Employee_ID \notin ContactIdRange

\* ------------------------------------------------------------------- claims
\* C1: a remediation run that directly follows a remediation run on existing
\* tables fixes nothing (both tables stay as they are) and returns the
\* "no missing data" message.
C1_SecondRunClean ==
    [][(result.op = "simulate" /\ result.status = "ok" /\ result'.op = "simulate")
        => /\ result'.status = "ok"
           /\ result'.out.text = SimCleanMsg
           /\ employees_csv' = employees_csv
           /\ emergency_contacts_csv' = emergency_contacts_csv]_vars

\* a second consecutive run has reported clean on tables the first run repaired
C1_Witness ==
    /\ prevSimulated
    /\ result.op = "simulate" /\ result.status = "ok"
    /\ result.out.text = SimCleanMsg
    /\ SomeEmailRemediated /\ SomeContactRemediated

\* C2 (as claimed): the verification reports success exactly when no employee
\* lacks an email and no employee lacks an emergency contact.
C2_VerifyChecksBothGaps ==
    (result.op = "verify" /\ result.status = "ok")
        => ((result.out.text = "SUCCESS")
                <=> (MissingEmailIdsOnDisk = {} /\ MissingContactIdsOnDisk = {}))

\* C3 (as claimed): an audit that directly follows a reset reports at least one
\* missing email and at least one missing contact.
C3_ResetThenAuditBothGaps ==
    [][(result.op = "reset" /\ result'.op = "audit")
        => /\ result'.status = "ok"
           /\ \E k \in DOMAIN result'.out.issues :
                result'.out.issues[k].kind = "email" /\ result'.out.issues[k].count >= 1
           /\ \E k \in DOMAIN result'.out.issues :
                result'.out.issues[k].kind = "contact" /\ result'.out.issues[k].count >= 1]_vars

\* C4 (as claimed): an audit, verification, compensation calculation or
\* remediation invoked while a table file is absent does not fail, and the
\* tables exist afterwards.
C4_AbsentTableRegenerated ==
    [][(~TablesExist /\ result'.op \in {"audit", "verify", "hike", "simulate"})
        => (result'.status = "ok" /\ TablesExist')]_vars

\* C5: a compensation calculation for an id that has no Employee row returns
\* the "not found" result and does not raise, in every reachable state.
C5_UnknownIdNotFound ==
    (result.op = "hike" /\ result.args[1] \notin Ids(employees_csv))
        => (result.status = "ok" /\ result.out.text = NotFoundMsg)

\* an id without a row was looked up in tables that remediation had rewritten
C5_Witness ==
    /\ result.op = "hike" /\ result.status = "ok"
    /\ result.args[1] \notin Ids(employees_csv)
    /\ result.out.text = NotFoundMsg
    /\ SomeEmailRemediated

\* the employee with this id is the only row of its role
SoleMemberOfRole(emp_id) ==
    \E i \in DOMAIN employees_csv :
        /\ employees_csv[i].Employee_ID = emp_id
        /\ \A j \in DOMAIN employees_csv :
                employees_csv[j].Role = employees_csv[i].Role => j = i

HikeReported == result.op = "hike" /\ result.status = "ok" /\ result.out.text = "report"

\* C6 (as claimed): for the only member of a role the position is exactly 1.0
\* and the advisory is "high risk", whatever the percentage.
C6_SoleMemberAlwaysTopOfBand ==
    (HikeReported /\ SoleMemberOfRole(result.args[1]))
        => /\ result.out.pos.num = result.out.pos.den
           /\ result.out.rec_text = HighRiskText

\* C6 (amended): for the only member of a role the band is [0.9 s, 1.1 s], never of
\* zero width, so the position is 0.5 + percent/20; the advisory is "safe" for
\* every percentage in 0..6 and "high risk" for every percentage from 8 up.
C6_SoleMemberPosition ==
    (HikeReported /\ SoleMemberOfRole(result.args[1]))
        => /\ result.out.band_max # result.out.band_min
           /\ result.out.pos.num * 20 = result.out.pos.den * (10 + result.args[2])
           /\ (result.args[2] <= 6 => result.out.rec_text = SafeText)
           /\ (result.args[2] >= 8 => result.out.rec_text = HighRiskText)

\* a sole member of a role got a 0% hike and the "safe" advisory
C6_Witness ==
    /\ HikeReported /\ SoleMemberOfRole(result.args[1])
    /\ result.args[2] = 0
    /\ result.out.rec_text = SafeText

\* C7: the audit returns the "all clean" message exactly when no employee lacks
\* an email and no employee id lacks a contact; otherwise its report has, for
\* each non-empty set and for no other, one entry whose count is the set's size.
C7_AuditCounts ==
    (result.op = "audit" /\ result.status = "ok")
        => /\ (result.out.text = AuditCleanMsg)
                <=> (MissingEmailIdsOnDisk = {} /\ MissingContactIdsOnDisk = {})
           /\ IF MissingEmailIdsOnDisk = {} THEN IssuesOfKind("email") = {}
              ELSE \E k \in DOMAIN result.out.issues :
                    /\ IssuesOfKind("email") = {k}
                    /\ result.out.issues[k].count = Cardinality(MissingEmailIdsOnDisk)
           /\ IF MissingContactIdsOnDisk = {} THEN IssuesOfKind("contact") = {}
              ELSE \E k \in DOMAIN result.out.issues :
                    /\ IssuesOfKind("contact") = {k}
                    /\ result.out.issues[k].count = Cardinality(MissingContactIdsOnDisk)

\* an audit has reported both kinds of gap
C7_Witness ==
    /\ result.op = "audit" /\ result.status = "ok"
    /\ MissingEmailIdsOnDisk # {} /\ MissingContactIdsOnDisk # {}
    /\ Len(result.out.issues) = 2

\* C8 (as claimed): a remediation run that fixes something returns a report that
\* lists every email it filled and, when it added contacts, the contacts.
C8_ReportListsEveryFix ==
    [][(TablesExist /\ result'.op = "simulate" /\ result'.status = "ok")
        => /\ MissingEmailIdsOnDisk # {}
                => \E k \in DOMAIN result'.out.sections :
                    /\ result'.out.sections[k].kind = "emails"
                    /\ Len(result'.out.sections[k].rows) = Cardinality(MissingEmailIdsOnDisk)
           /\ Len(emergency_contacts_csv') > Len(emergency_contacts_csv)
                => \E k \in DOMAIN result'.out.sections :
                    result'.out.sections[k].kind = "contacts"]_vars

\* C9: no operation other than reset removes an Employee row or an
\* EmergencyContact row, and none changes an email that was already present.
C9_NoRowRemovedWithoutReset ==
    [][result'.op # "reset"
        => /\ Len(employees_csv') >= Len(employees_csv)
           /\ \A i \in DOMAIN employees_csv :
                /\ employees_csv'[i].Employee_ID = employees_csv[i].Employee_ID
                /\ employees_csv[i].Email # "" => employees_csv'[i] = employees_csv[i]
           /\ Ids(employees_csv) \subseteq Ids(employees_csv')
           /\ Range(emergency_contacts_csv) \subseteq Range(emergency_contacts_csv')]_vars

\* a remediation run has filled an email and added a contact next to rows it left alone
C9_Witness ==
    /\ result.op = "simulate" /\ result.status = "ok"
    /\ result.out.text = SimHeader
    /\ SomeEmailRemediated /\ SomeContactRemediated
    /\ \E i \in DOMAIN employees_csv : employees_csv[i].Email = GeneratedEmail
    /\ \E i \in DOMAIN emergency_contacts_csv :
            emergency_contacts_csv[i].Employee_ID \in ContactIdRange

\* C10: while both tables exist, every EmergencyContact row carries the id of an
\* Employee row.
C10_ContactsReferToEmployees ==
    TablesExist => Ids(emergency_contacts_csv) \subseteq Ids(employees_csv)

\* both tables exist, generated and remediated contacts among them
C10_Witness ==
    /\ TablesExist
    /\ SomeContactRemediated
    /\ \E i \in DOMAIN emergency_contacts_csv :
            emergency_contacts_csv[i].Employee_ID \in ContactIdRange

\* ---------------------------------------------------- read-only operations
TableFiles == {"employees.csv", "emergency_contacts.csv"}

ReadOnlyOps == {"audit", "verify", "hike"}

\* the two tables are after the step what they were before it
TablesUntouched ==
    /\ files' \cap TableFiles = files \cap TableFiles
    /\ employees_csv' = employees_csv
    /\ emergency_contacts_csv' = emergency_contacts_csv

\* C11 (as claimed): an audit, a verification or a compensation calculation, in
\* any reachable state, leaves the existence and the contents of the Employee
\* and EmergencyContact tables as they were.
C11_ReadOnlyAlways ==
    [][result'.op \in ReadOnlyOps => TablesUntouched]_vars

\* C11 (amended): an audit, a verification or a compensation calculation called
\* while employees.csv exists leaves the existence and the contents of both
\* tables as they were (called while it is absent, it generates them).
C11_ReadOnlyOnExistingTables ==
    [][("employees.csv" \in files /\ result'.op \in ReadOnlyOps) => TablesUntouched]_vars

\* a verification has run right after a remediation run, on the tables it wrote
C11_Witness ==
    /\ prevSimulated
    /\ result.op = "verify" /\ result.status = "ok"
    /\ TablesExist
    /\ SomeEmailRemediated

\* C12: under sequential use employees.csv exists exactly when
\* emergency_contacts.csv does, and no operation that loads the tables ends in
\* the loader's failure branch (the None tables, on which the caller raises).
C12_TablesExistTogether ==
    /\ ("employees.csv" \in files) <=> ("emergency_contacts.csv" \in files)
    /\ result.op \in ReadOnlyOps => result.status = "ok"

\* the loader has served a calculation on tables that remediation rewrote
C12_Witness ==
    /\ prevSimulated
    /\ result.op = "hike" /\ result.status = "ok"
    /\ TablesExist
    /\ SomeContactRemediated

\* ------------------------------------------------------------ overlap claim
\* a statement of the remediation run that writes a table
SimWrites == sim.pc \in {"read_both", "wrote_emp"} /\ sim'.pc # sim.pc

\* what the run read is still what is on disk
SimReadIsCurrent ==
    /\ TablesExist
    /\ IF sim.pc = "read_both" THEN read_csv(employees_csv) = sim.df_emp
       ELSE employees_csv = to_csv(sim.df_emp)
    /\ emergency_contacts_csv = sim.df_cont

\* C13 (as claimed): with two user actions overlapping, no finished remediation
\* run leaves employees.csv present while emergency_contacts.csv is absent,
\* and the run never writes a table from rows it read before another action
\* changed or removed the tables.
C13_NoInterleavedWrite ==
    /\ []((sim.pc = "idle" /\ "employees.csv" \in files) => "emergency_contacts.csv" \in files)
    /\ [][SimWrites => SimReadIsCurrent]_vars
====
